---- MODULE Spec2Model ----
(***************************************************************************)
(* Model of Parser (parser.py): the three word-budget batching passes      *)
(* (batchify_X, batchify_y, batchify_weights), the batch generator, fit    *)
(* and predict.  A tree is a record [id, tokens, comments]; the encoders   *)
(* and the Keras model are external collaborators, modelled only by what   *)
(* Parser passes to them and reads back.                                   *)
(***************************************************************************)
EXTENDS Integers, Sequences, FiniteSets, TLC

\* ---- bounds of the exploration ----
MaxTrees == 3
MaxMixed == 2
MaxTokens == 2
MaxBatchSize == 2
MaxPulls == 4

\* ---- configuration values (params.full_tree, params.partial_tree) ----
FullTree == "full"
PartialTree == "partial"

CommentSets == {{}, {FullTree}, {PartialTree}, {FullTree, PartialTree}}

TargetLists ==
    { <<"head", "deprel", "lemma", "semrel">>,
      <<"upostag", "xpostag", "feats", "sent">>,
      <<"head", "bogus">> }

BatchSizes == (1..MaxBatchSize) \cup {8}

\* ---- trees ----
Tree(id, n, c) == [id |-> id, tokens |-> [k \in 1..n |-> k], comments |-> c]

Perms(n) == {p \in [1..n -> 1..n] : \A i, j \in 1..n : p[i] = p[j] => i = j}

ScenarioTrees == <<Tree(1, 2, {FullTree}), Tree(2, 10, {FullTree}), Tree(3, 3, {FullTree})>>

UniformInputs ==
    UNION {{[i \in 1..n |-> Tree(i, toks[i], c)] : toks \in [1..n -> 0..MaxTokens], c \in CommentSets}
           : n \in 0..MaxTrees}

MixedInputs ==
    UNION {{[i \in 1..n |-> Tree(i, toks[i], cs[i])] : toks \in [1..n -> 0..MaxTokens], cs \in [1..n -> CommentSets \ {{FullTree, PartialTree}}]}
           : n \in 0..MaxMixed}

FitInputs == UniformInputs \cup MixedInputs \cup {ScenarioTrees}

PredictInputs ==
    UNION {{[i \in 1..n |-> Tree(p[i], toks[i], {})] : toks \in [1..n -> 0..MaxTokens], p \in Perms(n)}
           : n \in 0..MaxTrees}
    \cup {ScenarioTrees}

IterInputs == {ts \in UniformInputs : \A i \in 1..Len(ts) : ts[i].comments = {FullTree}}

\* ---- helpers ----
RECURSIVE SumSeq(_)
SumSeq(s) == IF s = <<>> THEN 0 ELSE Head(s) + SumSeq(Tail(s))

Min2(a, b) == IF a <= b THEN a ELSE b

\* sorted(trees, key=lambda x: len(x.tokens)): Python's sort is stable
RECURSIVE InsertByLen(_, _)
InsertByLen(s, t) ==
    IF s = <<>> THEN <<t>>
    ELSE IF Len(Head(s).tokens) <= Len(t.tokens)
         THEN <<Head(s)>> \o InsertByLen(Tail(s), t)
         ELSE <<t>> \o s

RECURSIVE sorted_by_len(_)
sorted_by_len(s) ==
    IF s = <<>> THEN <<>>
    ELSE InsertByLen(sorted_by_len(SubSeq(s, 1, Len(s) - 1)), s[Len(s)])

\* sorted(output_trees, key=lambda x: x.id)
RECURSIVE InsertById(_, _)
InsertById(s, t) ==
    IF s = <<>> THEN <<t>>
    ELSE IF Head(s).id <= t.id
         THEN <<Head(s)>> \o InsertById(Tail(s), t)
         ELSE <<t>> \o s

RECURSIVE sorted_by_id(_)
sorted_by_id(s) ==
    IF s = <<>> THEN <<>>
    ELSE InsertById(sorted_by_id(SubSeq(s, 1, Len(s) - 1)), s[Len(s)])

\* keras pad_sequences(x, padding='post'): every row right-padded with 0
\* to the longest row of x
RowMaxLen(x) ==
    IF x = <<>> THEN 0
    ELSE CHOOSE m \in {Len(x[i]) : i \in 1..Len(x)} : \A i \in 1..Len(x) : Len(x[i]) <= m

pad_sequences(x) ==
    [i \in 1..Len(x) |-> [k \in 1..RowMaxLen(x) |-> IF k <= Len(x[i]) THEN x[i][k] ELSE 0]]

\* features_factory.transform(trees): one raw column, one row per tree,
\* one code per token (the code is the tree id, so a row names its tree)
features_transform(trees) ==
    << [i \in 1..Len(trees) |-> [k \in 1..Len(trees[i].tokens) |-> trees[i].id]] >>

\* targets_factory.transform(trees): one raw column per configured target
targets_transform(trees, targets) ==
    [c \in 1..Len(targets) |->
        [i \in 1..Len(trees) |-> [k \in 1..Len(trees[i].tokens) |-> trees[i].id]]]

\* targets_factory.encoders[target].vocab_size
vocab_size(target) == MaxTrees + 2

EmptyBatch(n_cols) == [c \in 1..n_cols |-> <<>>]

\* ---- batchify_X ----
XShouldClose_ge(words_batch, batch_size) == words_batch >= batch_size

XShouldClose(words_batch, batch_size) == words_batch > batch_size

XHasRemainder_always(words_batch) == words_batch >= 0

XHasRemainder(words_batch) == words_batch > 0

XPad(batch) == [c \in 1..Len(batch) |-> pad_sequences(batch[c])]

XStep(trees, raw, batch_size, row_idx, st) ==
    LET words_batch == st.words_batch + Len(trees[row_idx].tokens)
        batch == [col_idx \in 1..Len(raw) |-> Append(st.batch[col_idx], raw[col_idx][row_idx])]
    IN  IF XShouldClose(words_batch, batch_size)
        THEN [words_batch |-> 0, batch |-> EmptyBatch(Len(raw)),
              output |-> Append(st.output, XPad(batch))]
        ELSE [words_batch |-> words_batch, batch |-> batch, output |-> st.output]

RECURSIVE XLoop(_, _, _, _, _)
XLoop(trees, raw, batch_size, row_idx, st) ==
    IF row_idx > Len(trees) THEN st
    ELSE XLoop(trees, raw, batch_size, row_idx + 1, XStep(trees, raw, batch_size, row_idx, st))

batchify_X(trees, batch_size) ==
    LET raw == features_transform(trees)
        st == XLoop(trees, raw, batch_size, 1,
                    [words_batch |-> 0, batch |-> EmptyBatch(Len(raw)), output |-> <<>>])
    IN  IF XHasRemainder(st.words_batch)
        THEN Append(st.output, XPad(st.batch))
        ELSE st.output

\* ---- batchify_y ----
YShouldClose_ge(words_batch, batch_size) == words_batch >= batch_size

YShouldClose(words_batch, batch_size) == words_batch > batch_size

YHasRemainder(words_batch) == words_batch > 0

\* the per-target dispatch of lines 95-101 / 111-117; to_categorical is
\* recorded by its class count, the data it encodes is kept as padded
YEncode(target, padded_target) ==
    IF target = "head"
    THEN [enc |-> "to_categorical", num_classes |-> RowMaxLen(padded_target), data |-> padded_target]
    ELSE IF target \in {"feats", "sent"}
    THEN [enc |-> "raw", num_classes |-> 0, data |-> padded_target]
    ELSE [enc |-> "to_categorical", num_classes |-> vocab_size(target), data |-> padded_target]

\* zip(self.params.targets, padded_batch)
YOutputBatch(targets, batch) ==
    [c \in 1..Min2(Len(targets), Len(batch)) |-> YEncode(targets[c], pad_sequences(batch[c]))]

YStep(trees, raw, targets, batch_size, row_idx, st) ==
    LET words_batch == st.words_batch + Len(trees[row_idx].tokens)
        batch == [col_idx \in 1..Len(raw) |-> Append(st.batch[col_idx], raw[col_idx][row_idx])]
    IN  IF YShouldClose(words_batch, batch_size)
        THEN [words_batch |-> 0, batch |-> EmptyBatch(Len(raw)),
              output |-> Append(st.output, YOutputBatch(targets, batch))]
        ELSE [words_batch |-> words_batch, batch |-> batch, output |-> st.output]

RECURSIVE YLoop(_, _, _, _, _, _)
YLoop(trees, raw, targets, batch_size, row_idx, st) ==
    IF row_idx > Len(trees) THEN st
    ELSE YLoop(trees, raw, targets, batch_size, row_idx + 1,
               YStep(trees, raw, targets, batch_size, row_idx, st))

batchify_y(trees, targets, batch_size) ==
    LET raw == targets_transform(trees, targets)
        st == YLoop(trees, raw, targets, batch_size, 1,
                    [words_batch |-> 0, batch |-> EmptyBatch(Len(raw)), output |-> <<>>])
    IN  IF YHasRemainder(st.words_batch)
        THEN Append(st.output, YOutputBatch(targets, st.batch))
        ELSE st.output

\* ---- batchify_weights ----
\* A weight is a decimal number kept as whole part and billionths, or
\* minus infinity (numpy's log(0)).
Num(whole, nano) == [k |-> "num", whole |-> whole, nano |-> nano]

NegInf == [k |-> "-inf", whole |-> 0, nano |-> 0]

\* ln(1) .. ln(12), rounded to 9 decimals
LnTable ==
    << <<0, 0>>, <<0, 693147181>>, <<1, 98612289>>, <<1, 386294361>>,
       <<1, 609437912>>, <<1, 791759469>>, <<1, 945910149>>, <<2, 79441542>>,
       <<2, 197224577>>, <<2, 302585093>>, <<2, 397895273>>, <<2, 484906650>> >>

np_log(n) == IF n = 0 THEN NegInf ELSE Num(LnTable[n][1], LnTable[n][2])

\* the literal 1e-9 of line 153
Negligible == Num(0, 1)

FullTargets == {"head", "deprel", "lemma", "upostag", "xpostag", "feats", "semrel"}

PartialTargets == {"lemma", "upostag", "xpostag", "feats"}

WTargets(tree, train_partial) ==
    IF ~train_partial \/ FullTree \in tree.comments THEN FullTargets
    ELSE IF PartialTree \in tree.comments THEN PartialTargets
    ELSE {}

WShouldClose(words_batch, batch_size) == words_batch > batch_size

WHasRemainder(words_batch) == words_batch > 0

WStep(trees, targets, train_partial, batch_size, row_idx, st) ==
    LET tree == trees[row_idx]
        words_batch == st.words_batch + Len(tree.tokens)
        sample_weight == np_log(Len(tree.tokens))
        tgts == WTargets(tree, train_partial)
        batch == [col_idx \in 1..Len(targets) |->
                    Append(st.batch[col_idx],
                           IF targets[col_idx] \in tgts THEN sample_weight ELSE Negligible)]
    IN  IF WShouldClose(words_batch, batch_size)
        THEN [words_batch |-> 0, batch |-> EmptyBatch(Len(targets)),
              output |-> Append(st.output, batch)]
        ELSE [words_batch |-> words_batch, batch |-> batch, output |-> st.output]

RECURSIVE WLoop(_, _, _, _, _, _)
WLoop(trees, targets, train_partial, batch_size, row_idx, st) ==
    IF row_idx > Len(trees) THEN st
    ELSE WLoop(trees, targets, train_partial, batch_size, row_idx + 1,
               WStep(trees, targets, train_partial, batch_size, row_idx, st))

batchify_weights(trees, targets, train_partial, batch_size) ==
    LET st == WLoop(trees, targets, train_partial, batch_size, 1,
                    [words_batch |-> 0, batch |-> EmptyBatch(Len(targets)), output |-> <<>>])
    IN  IF WHasRemainder(st.words_batch)
        THEN Append(st.output, st.batch)
        ELSE st.output

\* ---- fit's zip of the three batch lists ----
zip3(X, y, w) ==
    [i \in 1..Min2(Len(X), Min2(Len(y), Len(w))) |-> <<X[i], y[i], w[i]>>]

\* ---- create_generator ----
\* line 49: the index of the batch yielded after batch_idx
next_batch_idx_nowrap(batch_idx, n_batches) == batch_idx + 1

next_batch_idx(batch_idx, n_batches) == (batch_idx + 1) % n_batches

\* ---- predict ----
\* the loop of lines 199-230: one output tree per row of the slice
\* trees[tree_idx:tree_idx + batch[0].shape[0]]
RECURSIVE PredictLoop(_, _, _, _, _)
PredictLoop(trees, X, b, tree_idx, output) ==
    IF b > Len(X) THEN output
    ELSE LET rows == Len(X[b][1])
             hi == Min2(tree_idx + rows, Len(trees))
             batch_trees == SubSeq(trees, tree_idx + 1, hi)
             new_trees == [r \in 1..Len(batch_trees) |->
                             [id |-> batch_trees[r].id,
                              tokens |-> batch_trees[r].tokens,
                              comments |-> batch_trees[r].comments]]
         IN  PredictLoop(trees, X, b + 1, tree_idx + Len(batch_trees), output \o new_trees)

\* ---- state ----
VARIABLES params, model, phase, input, trees, X_batches, y_batches, w_batches,
          batches, steps_per_epoch, gen, yielded, error, output_trees, model_calls

vars == <<params, model, phase, input, trees, X_batches, y_batches, w_batches,
          batches, steps_per_epoch, gen, yielded, error, output_trees, model_calls>>

NoGen == [multiple |-> FALSE, batch_idx |-> 0, status |-> "none"]

\* Parser.__init__
Init ==
    /\ params \in [batch_size : BatchSizes, targets : TargetLists, train_partial : BOOLEAN]
    /\ model = "None"
    /\ phase = "idle"
    /\ input = <<>>
    /\ trees = <<>>
    /\ X_batches = <<>>
    /\ y_batches = <<>>
    /\ w_batches = <<>>
    /\ batches = <<>>
    /\ steps_per_epoch = 0
    /\ gen = NoGen
    /\ yielded = <<>>
    /\ error = "none"
    /\ output_trees = <<>>
    /\ model_calls = 0

\* the three passes and the zip, lines 174-179
Batchify(ts) ==
    /\ trees' = ts
    /\ X_batches' = batchify_X(ts, params.batch_size)
    /\ y_batches' = batchify_y(ts, params.targets, params.batch_size)
    /\ w_batches' = batchify_weights(ts, params.targets, params.train_partial, params.batch_size)
    /\ batches' = zip3(X_batches', y_batches', w_batches')

\* fit, up to the call of fit_generator
Fit ==
    /\ phase = "idle"
    /\ \E ts \in FitInputs :
         /\ input' = ts
         /\ Batchify(sorted_by_len(ts))
    /\ model' = "fitted"
    /\ gen' = [multiple |-> TRUE, batch_idx |-> 0, status |-> "created"]
    /\ steps_per_epoch' = Len(batches')
    /\ yielded' = <<>>
    /\ error' = "none"
    /\ phase' = "fit"
    /\ UNCHANGED <<params, output_trees, model_calls>>

\* create_generator(batches, multiple=False) over a zipped batch list
Iterate ==
    /\ phase = "idle"
    /\ \E ts \in IterInputs :
         /\ input' = ts
         /\ Batchify(sorted_by_len(ts))
    /\ gen' = [multiple |-> FALSE, batch_idx |-> 0, status |-> "created"]
    /\ yielded' = <<>>
    /\ error' = "none"
    /\ phase' = "iterate"
    /\ UNCHANGED <<params, model, steps_per_epoch, output_trees, model_calls>>

\* one next() on the generator by its consumer
GeneratorNext ==
    /\ phase \in {"fit", "iterate"}
    /\ gen.status \in {"created", "suspended"}
    /\ Len(yielded) < MaxPulls
    /\ LET n_batches == Len(batches)
           idx == IF gen.status = "created" THEN 0
                  ELSE IF gen.multiple THEN next_batch_idx(gen.batch_idx, n_batches)
                  ELSE gen.batch_idx + 1
       IN  IF idx < n_batches
           THEN /\ yielded' = Append(yielded, idx)
                /\ gen' = [gen EXCEPT !.batch_idx = idx, !.status = "suspended"]
                /\ error' = error
           ELSE IF gen.multiple
           THEN \* batches[batch_idx] on an empty list
                /\ error' = "IndexError"
                /\ gen' = [gen EXCEPT !.status = "raised"]
                /\ yielded' = yielded
           ELSE \* the for loop ends: StopIteration
                /\ gen' = [gen EXCEPT !.status = "exhausted"]
                /\ UNCHANGED <<yielded, error>>
    /\ UNCHANGED <<params, model, phase, input, trees, X_batches, y_batches, w_batches,
                   batches, steps_per_epoch, output_trees, model_calls>>

\* predict
Predict ==
    /\ phase = "idle"
    /\ model = "fitted"
    /\ \E ts \in PredictInputs :
         /\ input' = ts
         /\ trees' = sorted_by_len(ts)
         /\ X_batches' = batchify_X(trees', params.batch_size)
         /\ model_calls' = Len(X_batches')
         /\ output_trees' = sorted_by_id(PredictLoop(trees', X_batches', 1, 0, <<>>))
    /\ phase' = "predict"
    /\ UNCHANGED <<params, model, y_batches, w_batches, batches, steps_per_epoch,
                   gen, yielded, error>>

\* fit, predict or the consumer of the generator returns: the locals go
Return ==
    /\ phase # "idle"
    /\ phase' = "idle"
    /\ input' = <<>>
    /\ trees' = <<>>
    /\ X_batches' = <<>>
    /\ y_batches' = <<>>
    /\ w_batches' = <<>>
    /\ batches' = <<>>
    /\ steps_per_epoch' = 0
    /\ gen' = NoGen
    /\ yielded' = <<>>
    /\ error' = "none"
    /\ output_trees' = <<>>
    /\ model_calls' = 0
    /\ UNCHANGED <<params, model>>

Next == Fit \/ Iterate \/ GeneratorNext \/ Predict \/ Return

Spec == Init /\ [][Next]_vars

TypeOK ==
    /\ phase \in {"idle", "fit", "iterate", "predict"}
    /\ model \in {"None", "fitted"}
    /\ error \in {"none", "IndexError"}

\* ---- vocabulary of the properties ----
TokCounts(ts) == [i \in 1..Len(ts) |-> Len(ts[i].tokens)]

RowCountsX(X) == [i \in 1..Len(X) |-> Len(X[i][1])]

RowCountsY(y) == [i \in 1..Len(y) |-> Len(y[i][1].data)]

RowCountsW(w) == [i \in 1..Len(w) |-> Len(w[i][1])]

\* number of rows in the batches before batch i
Offset(counts, i) == SumSeq(SubSeq(counts, 1, i - 1))

\* row is the codes of tree t, right-padded with zeros
IsPaddedRowOf(row, t) ==
    /\ Len(row) >= Len(t.tokens)
    /\ \A k \in 1..Len(row) : row[k] = IF k <= Len(t.tokens) THEN t.id ELSE 0

Positive(w) == w.k = "num" /\ (w.whole > 0 \/ (w.whole = 0 /\ w.nano > 0))

RecognizedTargets == FullTargets \cup {"sent"}

MorphTargets == {"lemma", "upostag", "xpostag", "feats"}

InScenario ==
    /\ phase = "fit"
    /\ TokCounts(input) = <<2, 10, 3>>
    /\ params.batch_size = 8

\* C1 (as stated): in the scenario [2, 10, 3] with batch_size 8, every
\* pass emits 2 batches with row counts [2, 1].
C1_Original ==
    InScenario =>
        /\ RowCountsX(X_batches) = <<2, 1>>
        /\ RowCountsY(y_batches) = <<2, 1>>
        /\ RowCountsW(w_batches) = <<2, 1>>

\* C1 (amended): in the scenario [2, 10, 3] with batch_size 8 the trees
\* are sorted to [2, 3, 10] and every pass emits exactly one batch of 3
\* rows: the tree that takes the counter over the threshold (15 > 8) is
\* the last row of the batch that is closed, and no remainder follows.
C1_Amended ==
    InScenario =>
        /\ TokCounts(trees) = <<2, 3, 10>>
        /\ RowCountsX(X_batches) = <<3>>
        /\ RowCountsY(y_batches) = <<3>>
        /\ RowCountsW(w_batches) = <<3>>

C1_Witness == InScenario /\ Len(batches) = 1

\* C2: in each pass the row counts of the emitted batches sum to the
\* number of input trees, zero-token trees included.
C2_NoTreeDropped ==
    phase = "fit" =>
        /\ SumSeq(RowCountsX(X_batches)) = Len(input)
        /\ SumSeq(RowCountsY(y_batches)) = Len(input)
        /\ SumSeq(RowCountsW(w_batches)) = Len(input)

\* C3: the three passes emit the same number of batches, the i-th batch
\* of each has the same number of rows, and row r of batch i is, in each
\* pass, the row of the same tree of the sorted sequence.
C3_Aligned ==
    phase = "fit" =>
        /\ RowCountsX(X_batches) = RowCountsY(y_batches)
        /\ RowCountsX(X_batches) = RowCountsW(w_batches)
        /\ Len(batches) = Len(X_batches)
        /\ \A i \in 1..Len(X_batches) :
             /\ RowCountsX(X_batches)[i] >= 1
             /\ \A r \in 1..RowCountsX(X_batches)[i] :
                  LET idx == Offset(RowCountsX(X_batches), i) + r
                  IN  /\ idx <= Len(trees)
                      /\ IsPaddedRowOf(batches[i][1][1][r], trees[idx])
                      /\ \A c \in 1..Len(params.targets) :
                           /\ IsPaddedRowOf(batches[i][2][c].data[r], trees[idx])
                           /\ batches[i][3][c][r] \in {Negligible, np_log(Len(trees[idx].tokens))}

C3_Witness ==
    /\ phase = "fit"
    /\ Len(batches) >= 2
    /\ \E i \in 1..Len(X_batches) : Len(X_batches[i][1]) >= 2

\* C4: predict returns the trees sorted by identifier, one per input
\* identifier.
C4_PredictRoundTrip ==
    phase = "predict" =>
        /\ \A i \in 1..(Len(output_trees) - 1) : output_trees[i].id < output_trees[i + 1].id
        /\ Len(output_trees) = Len(input)
        /\ {output_trees[i].id : i \in 1..Len(output_trees)} = {input[i].id : i \in 1..Len(input)}

\* the weight C5 states for a tree and a target
C5_StatedWeight(tree, target) ==
    IF ~params.train_partial \/ FullTree \in tree.comments
    THEN np_log(Len(tree.tokens))
    ELSE IF PartialTree \in tree.comments
    THEN IF target \in MorphTargets THEN np_log(Len(tree.tokens)) ELSE Negligible
    ELSE Negligible

\* C5: with partial training off or the full-tree marker the weight is
\* ln(n) for every configured target; with the partial-tree marker ln(n)
\* for lemma, upostag, xpostag, feats and 1e-9 otherwise; without a
\* marker 1e-9.  Stated for target lists of recognized names only.
C5_WeightTiers ==
    (/\ phase = "fit"
     /\ \A c \in 1..Len(params.targets) : params.targets[c] \in RecognizedTargets) =>
        \A i \in 1..Len(w_batches) : \A c \in 1..Len(params.targets) :
            \A r \in 1..Len(w_batches[i][c]) :
                w_batches[i][c][r] =
                    C5_StatedWeight(trees[Offset(RowCountsW(w_batches), i) + r], params.targets[c])

\* C6: with a target outside the recognized vocabulary, batchify_y and
\* batchify_weights fail with a configuration error and build no batch.
C6_UnknownTargetFails ==
    (/\ phase = "fit"
     /\ \E c \in 1..Len(params.targets) : params.targets[c] \notin RecognizedTargets)
    => /\ error = "ConfigurationError"
       /\ y_batches = <<>>
       /\ w_batches = <<>>

\* C7: over n >= 1 batches the single-pass generator yields batch
\* 0..n-1 in order and a pull after the last one ends it; the cycling
\* generator never ends or fails, its k-th yield is batch k mod n, and
\* step s of every epoch of steps_per_epoch = n pulls is batch s.
C7_StateInv ==
    /\ (phase = "iterate" /\ Len(batches) >= 1) =>
          /\ error = "none"
          /\ Len(yielded) <= Len(batches)
          /\ \A k \in 1..Len(yielded) : yielded[k] = k - 1
          /\ gen.status = "exhausted" => Len(yielded) = Len(batches)
    /\ (phase = "fit" /\ Len(batches) >= 1) =>
          /\ error = "none"
          /\ gen.status \in {"created", "suspended"}
          /\ steps_per_epoch = Len(batches)
          /\ \A k \in 1..Len(yielded) : yielded[k] = (k - 1) % Len(batches)
          /\ \A e \in 0..MaxPulls : \A s \in 0..(steps_per_epoch - 1) :
                (e * steps_per_epoch + s + 1 <= Len(yielded))
                    => yielded[e * steps_per_epoch + s + 1] = s

C7_Generator ==
    /\ []C7_StateInv
    /\ [][(/\ phase = "iterate"
           /\ phase' = "iterate"
           /\ Len(batches) >= 1
           /\ Len(yielded) = Len(batches)
           /\ gen' # gen) => gen'.status = "exhausted"]_vars

C7_Witness ==
    /\ phase = "fit"
    /\ Len(batches) >= 2
    /\ Len(yielded) > Len(batches)

\* C8: an empty tree set is a no-op: the three passes return no batch,
\* predict returns an empty list without a model call, and the cycling
\* generator of fit raises nothing when pulled.
C8_EmptyIsNoOp ==
    /\ (phase = "fit" /\ input = <<>>) =>
          /\ X_batches = <<>>
          /\ y_batches = <<>>
          /\ w_batches = <<>>
          /\ error = "none"
    /\ (phase = "predict" /\ input = <<>>) =>
          /\ output_trees = <<>>
          /\ model_calls = 0

\* batch i of a pass with these row counts, as a run of the sorted trees
BatchTotal(counts, i) ==
    SumSeq(SubSeq(TokCounts(trees), Offset(counts, i) + 1, Offset(counts, i) + counts[i]))

BatchTotalButLast(counts, i) ==
    SumSeq(SubSeq(TokCounts(trees), Offset(counts, i) + 1, Offset(counts, i) + counts[i] - 1))

C9_PassOK(counts) ==
    /\ SumSeq(counts) <= Len(trees)
    /\ \A i \in 1..Len(counts) :
          /\ counts[i] >= 1
          /\ \/ /\ BatchTotal(counts, i) > params.batch_size
                /\ BatchTotalButLast(counts, i) <= params.batch_size
             \/ /\ i = Len(counts)
                /\ BatchTotal(counts, i) <= params.batch_size

\* C9: in each pass the batches are consecutive runs of the sorted trees;
\* every batch but possibly the last totals more than batch_size tokens
\* while its rows without the last total at most batch_size; only the
\* last batch may total at most batch_size.
C9_Threshold ==
    /\ phase = "fit" =>
          /\ C9_PassOK(RowCountsX(X_batches))
          /\ C9_PassOK(RowCountsY(y_batches))
          /\ C9_PassOK(RowCountsW(w_batches))
          /\ \A i \in 1..Len(X_batches) : \A r \in 1..Len(X_batches[i][1]) :
                IsPaddedRowOf(X_batches[i][1][r], trees[Offset(RowCountsX(X_batches), i) + r])
    /\ phase = "predict" => C9_PassOK(RowCountsX(X_batches))

C9_Witness ==
    /\ phase = "fit"
    /\ Len(X_batches) >= 2
    /\ BatchTotal(RowCountsX(X_batches), Len(X_batches)) <= params.batch_size
    /\ \E i \in 1..Len(X_batches) : Len(X_batches[i][1]) >= 2

\* C10: every weight emitted for a tree with at least one token is
\* strictly positive.
C10_WeightsPositive ==
    phase = "fit" =>
        \A i \in 1..Len(w_batches) : \A c \in 1..Len(params.targets) :
            \A r \in 1..Len(w_batches[i][c]) :
                Len(trees[Offset(RowCountsW(w_batches), i) + r].tokens) >= 1
                    => Positive(w_batches[i][c][r])

====
